---- MODULE Spec2Model ----
(***************************************************************************)
(* A model of the CoinGecko MCP tools: the three-stage get_coin_info       *)
(* handler (fetch-by-id, search, fetch-by-id of the first search hit) and  *)
(* the two single-call tools search_coingecko_id and                       *)
(* get_coin_data_by_coingecko_id.                                          *)
(*                                                                         *)
(* JavaScript values are records [t, v] tagged with their type; a JSON     *)
(* object carries its fields in f, an array its elements in items.  A      *)
(* property that is absent reads as Undefined, as in JavaScript.           *)
(***************************************************************************)
EXTENDS Integers, Sequences, FiniteSets, TLC

----------------------------------------------------------------------------
(* JavaScript values                                                       *)

V(t, v) == [t |-> t, v |-> v]
Undefined == V("undefined", "")
Null == V("null", "")
Str(s) == V("string", s)
Num(s) == V("number", s)
Bool(s) == V("boolean", s)
Obj(fields) == [t |-> "object", v |-> "", f |-> fields]
Arr(items) == [t |-> "array", v |-> "", items |-> items]
NoFields == [k \in {} |-> Undefined]
EmptyObj == Obj(NoFields)

\* JavaScript's ToBoolean: undefined, null, "", 0 and false are falsy.
Truthy(x) ==
    CASE x.t \in {"undefined", "null"} -> FALSE
      [] x.t = "string" -> x.v # ""
      [] x.t = "number" -> x.v # "0"
      [] x.t = "boolean" -> x.v = "true"
      [] OTHER -> TRUE

\* Reading a property of null or undefined throws a TypeError.
CanRead(x) == x.t \notin {"undefined", "null"}

\* x.k for a value that can be read: a field of an object, else undefined.
Prop(x, k) ==
    IF x.t = "object" /\ k \in DOMAIN x.f THEN x.f[k] ELSE Undefined

\* JSON.stringify of a value: the fields of an object whose value is
\* undefined are left out of the text.
Stringify(x) ==
    IF x.t = "object"
      THEN [t |-> "json", v |-> "",
            of |-> Obj([k \in {j \in DOMAIN x.f : x.f[j] # Undefined} |-> x.f[k]])]
      ELSE [t |-> "json", v |-> "", of |-> x]

----------------------------------------------------------------------------
(* Inputs: queries, and what the upstream can answer                       *)

\* A query whose text holds a lone surrogate: encodeURIComponent throws.
LoneSurrogate == "\\uD800"
Queries == {"usd-coin", "USD Coin", LoneSurrogate}

\* encodeURIComponent: throws a URIError on a lone surrogate, escapes a space.
EncodeThrows(s) == s = LoneSurrogate
encodeURIComponent(s) ==
    CASE s = "USD Coin" -> "USD%20Coin"
      [] OTHER -> s

\* HTTP statuses the upstream answers with.
Statuses == {200, 404, 500}

\* Mutant of Ok: only the server errors count as failures.
OkBelow500(status) == status < 500

\* Response.ok: the status is in the 2xx range.
Ok(status) == status >= 200 /\ status <= 299

\* A response body: its raw text, whether JSON.parse accepts it, and the value.
Body(raw, val) == [raw |-> raw, parses |-> TRUE, val |-> val]
BadBody == [raw |-> "<html>", parses |-> FALSE, val |-> Undefined]

Platforms == Obj([ethereum |-> Str("0xA0b8")])
FullCoin == Obj([id |-> Str("usd-coin"), symbol |-> Str("usdc"), name |-> Str("USD Coin"),
                 web_slug |-> Str("usd-coin"), platforms |-> Platforms,
                 market_cap_rank |-> Num("7")])
\* Bodies of the coin-detail endpoint: records of every shape the handler tells
\* apart (id absent, empty, not a string; error absent, empty, known, other;
\* platforms absent, null, falsy, empty, filled; other fields absent).
CoinBodies ==
    { Body("full", FullCoin),
      Body("bare", Obj([id |-> Str("bitcoin")])),
      Body("nullplat", Obj([id |-> Str("bitcoin"), symbol |-> Str("btc"), name |-> Null,
                            web_slug |-> Str("bitcoin"), platforms |-> Null])),
      Body("falseplat", Obj([id |-> Str("bitcoin"), symbol |-> Str("btc"),
                             name |-> Str("Bitcoin"), platforms |-> Bool("false")])),
      Body("emptyplat", Obj([id |-> Str("usd-coin"), symbol |-> Str("usdc"),
                             name |-> Str("USD Coin"), web_slug |-> Str("usd-coin"),
                             platforms |-> EmptyObj])),
      Body("notfound", Obj([error |-> Str("coin not found")])),
      Body("othererr", Obj([error |-> Str("rate limited")])),
      Body("iderr", Obj([id |-> Str("usd-coin"), error |-> Str("coin not found")])),
      Body("idemptyerr", Obj([id |-> Str("usd-coin"), symbol |-> Str("usdc"), error |-> Str("")])),
      Body("empty", EmptyObj),
      Body("emptyid", Obj([id |-> Str(""), symbol |-> Str("usdc")])),
      Body("numid", Obj([id |-> Num("7"), symbol |-> Str("usdc")])),
      Body("null", Null),
      BadBody }

Hit(id) == Obj([id |-> Str(id), name |-> Str(id), api_symbol |-> Str(id), symbol |-> Str(id)])
NoIdHit == Obj([name |-> Str("x")])
CandidateIds == {"usd-coin", "bitcoin"}
Candidates == {Hit(id) : id \in CandidateIds} \cup {NoIdHit, Hit(""), Null}
\* The longest candidate list the upstream answers a search with.
MaxCandidates == 2
CandidateLists == UNION {[1..n -> Candidates] : n \in 0..MaxCandidates}
SearchBodies ==
    {Body("hits", Obj([coins |-> Arr(l), exchanges |-> Arr(<<>>)])) : l \in CandidateLists}
    \cup { Body("nocoins", Obj([exchanges |-> Arr(<<>>)])),
           Body("toplevel", Obj([id |-> Str("usd-coin"), name |-> Str("USD Coin"),
                                 platforms |-> Null, coins |-> Arr(<<>>)])),
           Body("nullcoins", Obj([coins |-> Null])),
           Body("null", Null),
           BadBody }

\* What the upstream sends with a failure status: an error object, text that
\* is not JSON, null, or (on a 404 as much as on a 500) a whole coin record.
ErrorBodies ==
    { Body("notfound", Obj([error |-> Str("coin not found")])),
      Body("othererr", Obj([error |-> Str("rate limited")])),
      Body("full", FullCoin),
      Body("null", Null),
      BadBody }

\* What one fetch() ends with: a response, or a rejection (network failure).
Response(status, body) == [rejected |-> FALSE, status |-> status, body |-> body]
NetworkFailure == [rejected |-> TRUE, status |-> 0, body |-> BadBody]
CoinOutcomes ==
    {Response(200, b) : b \in CoinBodies}
    \cup {Response(s, b) : s \in Statuses \ {200}, b \in ErrorBodies}
    \cup {NetworkFailure}
SearchOutcomes ==
    {Response(200, b) : b \in SearchBodies}
    \cup {Response(s, b) : s \in Statuses \ {200}, b \in ErrorBodies}
    \cup {NetworkFailure}

----------------------------------------------------------------------------
(* Results and the outcome of one step of a handler                        *)

\* A CallToolResult: the isError flag (absent reads as false) and the text, a
\* sequence of the pieces the template string is built from.  threw marks an
\* exception that left the handler instead of a result.
Success(text) == [isError |-> FALSE, threw |-> FALSE, text |-> text]
Failure(text) == [isError |-> TRUE, threw |-> FALSE, text |-> text]
Thrown(msg) == [isError |-> FALSE, threw |-> TRUE, text |-> msg]
NoResult == [isError |-> FALSE, threw |-> FALSE, text |-> <<>>]

\* A template string that ends with a number, `... Status: ${status}`.
StrNum(s, n) == [t |-> "string", v |-> s, n |-> n]
\* Mutant of RawText: the body text is dropped.
RawTextEmpty(body) == [t |-> "text", v |-> ""]
\* The raw text of a body, as response.text() gives it.
RawText(body) == [t |-> "text", v |-> body.raw]

\* A remote call: the endpoint and the URL-encoded argument.
CoinsCall(arg) == [endpoint |-> "/coins/", arg |-> arg]
SearchCall(arg) == [endpoint |-> "/search?query=", arg |-> arg]

\* A step of a handler ends by returning, by throwing, or by awaiting a call.
Return(result) == [kind |-> "return", result |-> result]
Throw(msg) == [kind |-> "throw", msg |-> msg]
Await(call) == [kind |-> "await", call |-> call]

FetchFailed == <<Str("fetch failed")>>
URIMalformed == <<Str("URI malformed")>>
JsonSyntaxError == <<Str("Unexpected token < in JSON at position 0")>>
NullTypeError(k) == <<Str("Cannot read properties of null (reading '"), Str(k), Str("')")>>

----------------------------------------------------------------------------
(* get_coin_info                                                           *)

\* Mutant of processCoinDataResponse: platforms is copied without its default.
processCoinDataResponseNoDefault(coinDetails) ==
    IF Prop(coinDetails, "id").t # "string"
      THEN Throw(<<Str("Invalid coin data structure received from API (missing id): "),
                   Stringify(coinDetails)>>)
      ELSE Return(Success(<<Stringify(Obj([id |-> Prop(coinDetails, "id"),
                                           symbol |-> Prop(coinDetails, "symbol"),
                                           name |-> Prop(coinDetails, "name"),
                                           web_slug |-> Prop(coinDetails, "web_slug"),
                                           platforms |-> Prop(coinDetails, "platforms")]))>>))

processCoinDataResponse(coinDetails) ==
    IF Prop(coinDetails, "id").t # "string"
      THEN Throw(<<Str("Invalid coin data structure received from API (missing id): "),
                   Stringify(coinDetails)>>)
      ELSE LET platforms == Prop(coinDetails, "platforms")
               filteredData ==
                   Obj([id |-> Prop(coinDetails, "id"),
                        symbol |-> Prop(coinDetails, "symbol"),
                        name |-> Prop(coinDetails, "name"),
                        web_slug |-> Prop(coinDetails, "web_slug"),
                        platforms |-> IF Truthy(platforms) THEN platforms ELSE EmptyObj])
           IN Return(Success(<<Stringify(filteredData)>>))

\* Mutant of CatchCoinInfo: the message leaves the query out.
CatchCoinInfoNoQuery(query, outcome) ==
    IF outcome.kind = "throw"
      THEN Return(Failure(<<Str("Error processing coin query: ")>> \o outcome.msg))
      ELSE outcome

\* The catch of the handler: any throw becomes a failure naming the query.
CatchCoinInfo(query, outcome) ==
    IF outcome.kind = "throw"
      THEN Return(Failure(<<Str("Error processing coin query '"), Str(query), Str("': ")>>
                          \o outcome.msg))
      ELSE outcome

\* Step 1, up to the first await: the URL is built and the fetch is issued.
Step1Call(query) ==
    IF EncodeThrows(query) THEN Throw(URIMalformed)
    ELSE Await(CoinsCall(encodeURIComponent(query)))

\* Mutant of IsCoinData: the negation of the error test is lost.
IsCoinDataErrorRequired(data) == Truthy(Prop(data, "id")) /\ Truthy(Prop(data, "error"))

\* Mutant of IsCoinData: the error field is not looked at.
IsCoinDataIdOnly(data) == Truthy(Prop(data, "id"))

\* The id && !error test on a body, in step 1 and again in step 3.
IsCoinData(data) == Truthy(Prop(data, "id")) /\ ~Truthy(Prop(data, "error"))

\* Mutant of IsNotFoundStatus: every client or server error falls back.
IsAnyErrorStatus(status) == status >= 400

\* directIdResponse.status === 404
IsNotFoundStatus(status) == status = 404

\* Step 1, from the response of the fetch by id to the return, the throw or
\* the search call.
\* Step 1 with the parse failure of the body left uncaught.
Step1DecideParseThrows(query, r) ==
    IF r.rejected THEN Throw(FetchFailed)
    ELSE IF ~r.body.parses THEN Throw(JsonSyntaxError)
    ELSE LET directIdData == r.body.val
             search == Await(SearchCall(encodeURIComponent(query)))
         IN IF Ok(r.status)
              THEN IF ~CanRead(directIdData) THEN Throw(NullTypeError("id"))
                   ELSE IF IsCoinData(directIdData) THEN processCoinDataResponse(directIdData)
                   ELSE search
            ELSE IF IsNotFoundStatus(r.status) THEN search
            ELSE Throw(<<Str("Error fetching directly by ID '"), Str(query),
                         Str("'. Status: "), Num(ToString(r.status)),
                         Str(", Response: "), Stringify(directIdData)>>)
Step1Decide(query, r) ==
    IF r.rejected THEN Throw(FetchFailed)
    ELSE LET directIdData ==
                 IF r.body.parses THEN r.body.val
                 ELSE Obj([error |-> StrNum("Failed to parse JSON response from ID endpoint. Status: ",
                                            r.status)])
             search == Await(SearchCall(encodeURIComponent(query)))
         IN IF Ok(r.status)
              THEN IF ~CanRead(directIdData) THEN Throw(NullTypeError("id"))
                   ELSE IF IsCoinData(directIdData) THEN processCoinDataResponse(directIdData)
                   ELSE search
            ELSE IF IsNotFoundStatus(r.status) THEN search
            ELSE Throw(<<Str("Error fetching directly by ID '"), Str(query),
                         Str("'. Status: "), Num(ToString(r.status)),
                         Str(", Response: "), Stringify(directIdData)>>)

NotFound(query) ==
    Failure(<<Str("Coin not found for query: '"), Str(query),
              Str("' after attempting ID lookup and search.")>>)

\* Mutant of FirstCoinId: the last candidate is taken instead of the first.
FirstCoinIdLast(coins) ==
    LET last == IF coins.t = "array" /\ Len(coins.items) >= 1
                  THEN coins.items[Len(coins.items)] ELSE Undefined
    IN IF CanRead(last) THEN Prop(last, "id") ELSE Undefined

\* Mutant of FirstCoinId: the first candidate that has an id is taken.
FirstCoinIdFound(coins) ==
    LET items == IF coins.t = "array" THEN coins.items ELSE <<>>
        found == {k \in 1..Len(items) : CanRead(items[k]) /\ Truthy(Prop(items[k], "id"))}
    IN IF found = {} THEN Undefined
       ELSE Prop(items[CHOOSE k \in found : \A j \in found : k <= j], "id")

\* searchData.coins[0]?.id
FirstCoinId(coins) ==
    LET first == IF coins.t = "array" /\ Len(coins.items) >= 1 THEN coins.items[1]
                 ELSE Undefined
    IN IF CanRead(first) THEN Prop(first, "id") ELSE Undefined

\* Mutant of NoCoins: the test of the length is lost.
NoCoinsValue(coins) == ~Truthy(coins)

\* !searchData.coins || searchData.coins.length === 0
NoCoins(coins) == ~Truthy(coins) \/ (coins.t = "array" /\ Len(coins.items) = 0)

\* Step 2, from the response of the search to the return, the throw or the
\* fetch of the first hit.
Step2Decide(query, r) ==
    IF r.rejected THEN Throw(FetchFailed)
    ELSE IF ~Ok(r.status)
      THEN Throw(<<Str("Search API error for query '"), Str(query), Str("'. Status: "),
                   Num(ToString(r.status)), Str(", Body: "), RawText(r.body)>>)
    ELSE IF ~r.body.parses THEN Throw(JsonSyntaxError)
    ELSE IF ~CanRead(r.body.val) THEN Throw(NullTypeError("coins"))
    ELSE LET coins == Prop(r.body.val, "coins")
             firstCoinId == FirstCoinId(coins)
         IN IF NoCoins(coins) THEN Return(NotFound(query))
            ELSE IF ~Truthy(firstCoinId)
              THEN Throw(<<Str("Could not extract ID from the first search result.")>>)
            ELSE Await(CoinsCall(encodeURIComponent(firstCoinId.v)))

\* The firstCoinId local, as step 3 reads it back.
FirstCoinIdOf(r) == FirstCoinId(Prop(r.body.val, "coins"))

\* Mutant of Step3Decide: the error of the provider is never reported.
Step3DecideGenericOnly(query, firstCoinId, r) ==
    IF r.rejected THEN Throw(FetchFailed)
    ELSE LET idFromSearchData ==
                 IF r.body.parses THEN r.body.val
                 ELSE Obj([error |-> StrNum("Failed to parse JSON response from coin details endpoint (after search). Status: ", r.status)])
         IN IF ~Ok(r.status)
              THEN Throw(<<Str("Error fetching coin details for ID '"), firstCoinId,
                           Str("' (found via search for '"), Str(query),
                           Str("'). Status: "), Num(ToString(r.status)),
                           Str(", Body: "), Stringify(idFromSearchData)>>)
            ELSE IF ~CanRead(idFromSearchData) THEN Throw(NullTypeError("id"))
            ELSE IF IsCoinData(idFromSearchData) THEN processCoinDataResponse(idFromSearchData)
            ELSE Throw(<<Str("Failed to retrieve valid data for coin ID '"), firstCoinId,
                         Str("' (from search). API response: "),
                         Str("Invalid data structure after search")>>)

\* Step 3, from the response of the second fetch by id to the return or throw.
Step3Decide(query, firstCoinId, r) ==
    IF r.rejected THEN Throw(FetchFailed)
    ELSE LET idFromSearchData ==
                 IF r.body.parses THEN r.body.val
                 ELSE Obj([error |-> StrNum("Failed to parse JSON response from coin details endpoint (after search). Status: ",
                                            r.status)])
         IN IF ~Ok(r.status)
              THEN Throw(<<Str("Error fetching coin details for ID '"), firstCoinId,
                           Str("' (found via search for '"), Str(query),
                           Str("'). Status: "), Num(ToString(r.status)),
                           Str(", Body: "), Stringify(idFromSearchData)>>)
            ELSE IF ~CanRead(idFromSearchData) THEN Throw(NullTypeError("id"))
            ELSE IF IsCoinData(idFromSearchData)
              THEN processCoinDataResponse(idFromSearchData)
            ELSE LET error == Prop(idFromSearchData, "error")
                     errorDetail == IF Truthy(error) THEN error
                                    ELSE Str("Invalid data structure after search")
                 IN Throw(<<Str("Failed to retrieve valid data for coin ID '"), firstCoinId,
                            Str("' (from search). API response: "), errorDetail>>)

----------------------------------------------------------------------------
(* search_coingecko_id and get_coin_data_by_coingecko_id                   *)

HttpError(status) == <<Str("HTTP error! status: "), Num(ToString(status))>>

\* search_coingecko_id up to its await: nothing here is inside a try.
SearchIdCall(query) ==
    IF EncodeThrows(query) THEN Throw(URIMalformed)
    ELSE Await(SearchCall(encodeURIComponent(query)))

\* Mutant of SearchIdDecide: platforms gets the default of get_coin_info.
SearchIdDecideDefault(r) ==
    IF r.rejected THEN Throw(FetchFailed)
    ELSE IF ~Ok(r.status) THEN Throw(HttpError(r.status))
    ELSE IF ~r.body.parses THEN Throw(JsonSyntaxError)
    ELSE LET data == r.body.val
         IN IF ~CanRead(data)
              THEN Return(Failure(<<Str("Error fetching token info: ")>> \o NullTypeError("id")))
              ELSE Return(Success(<<Stringify(Obj([id |-> Prop(data, "id"),
                                                   symbol |-> Prop(data, "symbol"),
                                                   name |-> Prop(data, "name"),
                                                   web_slug |-> Prop(data, "web_slug"),
                                                   platforms |-> IF Truthy(Prop(data, "platforms"))
                                                                   THEN Prop(data, "platforms")
                                                                   ELSE EmptyObj]))>>))

\* search_coingecko_id from the response on: only the projection is inside
\* the try, so a rejection, a non-2xx status and a parse failure leave the
\* handler as exceptions.
SearchIdDecide(r) ==
    IF r.rejected THEN Throw(FetchFailed)
    ELSE IF ~Ok(r.status) THEN Throw(HttpError(r.status))
    ELSE IF ~r.body.parses THEN Throw(JsonSyntaxError)
    ELSE LET data == r.body.val
         IN IF ~CanRead(data)
              THEN Return(Failure(<<Str("Error fetching token info: ")>> \o NullTypeError("id")))
              ELSE Return(Success(<<Stringify(Obj([id |-> Prop(data, "id"),
                                                   symbol |-> Prop(data, "symbol"),
                                                   name |-> Prop(data, "name"),
                                                   web_slug |-> Prop(data, "web_slug"),
                                                   platforms |-> Prop(data, "platforms")]))>>))

\* The catch of get_coin_data_by_coingecko_id, around the whole handler.
CatchCoinData(outcome) ==
    IF outcome.kind = "throw"
      THEN Return(Failure(<<Str("Error fetching coin data: ")>> \o outcome.msg))
      ELSE outcome

CoinDataCall(id) ==
    IF EncodeThrows(id) THEN Throw(URIMalformed)
    ELSE Await(CoinsCall(encodeURIComponent(id)))

CoinDataDecide(r) ==
    IF r.rejected THEN Throw(FetchFailed)
    ELSE IF ~Ok(r.status) THEN Throw(HttpError(r.status))
    ELSE IF ~r.body.parses THEN Throw(JsonSyntaxError)
    ELSE Return(Success(<<Stringify(r.body.val)>>))

----------------------------------------------------------------------------
(* The state: the tool invocations in progress                             *)

\* How many invocations the model follows.
MaxInvocations == 2
Invocations == 1..MaxInvocations

\* What COINGECKO_API_KEY can hold in the process environment: nothing, the
\* empty string, a key.
EnvValues == {Undefined, Str(""), Str("key-1"), Str("key-2")}
ToolNames == {"get_coin_info", "search_coingecko_id", "get_coin_data_by_coingecko_id"}

VARIABLES
    env,          \* process.env.COINGECKO_API_KEY
    apiKey,       \* the apiKey constant of registerTools
    server,       \* starting, ready (startServer returned), exited
    exitCode,     \* the code the process exited with
    registered,   \* the names server.tool was called with
    keys,         \* the x-cg-pro-api-key header of each call of an invocation
    pc,           \* where each invocation is: idle, awaiting a call, done
    tool,         \* the tool it runs
    arg,          \* its argument (query or id)
    calls,        \* the remote calls it has issued, in order
    resps,        \* the outcomes of those calls it has received, in order
    firstCoinId,  \* the firstCoinId local of get_coin_info
    result        \* what the handler ended with

vars == <<env, apiKey, server, exitCode, registered, keys,
          pc, tool, arg, calls, resps, firstCoinId, result>>
startup == <<env, apiKey, server, exitCode, registered>>
invocations == <<keys, pc, tool, arg, calls, resps, firstCoinId, result>>

Init ==
    /\ env \in {Undefined, Str(""), Str("key-1")}
    /\ apiKey = Undefined
    /\ server = "starting"
    /\ exitCode = Undefined
    /\ registered = {}
    /\ keys = [i \in Invocations |-> <<>>]
    /\ pc = [i \in Invocations |-> "idle"]
    /\ tool = [i \in Invocations |-> "none"]
    /\ arg = [i \in Invocations |-> ""]
    /\ calls = [i \in Invocations |-> <<>>]
    /\ resps = [i \in Invocations |-> <<>>]
    /\ firstCoinId = [i \in Invocations |-> Undefined]
    /\ result = [i \in Invocations |-> NoResult]

\* if (!apiKey) throw new Error(...)
MissingKey == <<Str("COINGECKO_API_KEY environment variable is not set")>>
registerTools(key) ==
    IF ~Truthy(key) THEN Throw(MissingKey) ELSE Return(ToolNames)

\* startServer: registerTools reads the key and registers the tools, or throws
\* and the catch ends the process with code 1.
StartServer ==
    /\ server = "starting"
    /\ apiKey' = env
    /\ LET outcome == registerTools(env)
       IN IF outcome.kind = "throw"
            THEN /\ server' = "exited"
                 /\ exitCode' = Num("1")
                 /\ UNCHANGED registered
            ELSE /\ server' = "ready"
                 /\ registered' = outcome.result
                 /\ UNCHANGED exitCode
    /\ UNCHANGED <<env, invocations>>

\* Other code of the process, or nothing at all, changes the environment.
SetEnv(v) ==
    /\ env # v
    /\ env' = v
    /\ UNCHANGED <<apiKey, server, exitCode, registered, invocations>>

\* A variant with a fault: the header is read from the environment at the call.
HeaderKeyFromEnv == env

\* 'x-cg-pro-api-key': apiKey, the constant the handlers close over.
HeaderKey == apiKey

\* The handler of invocation i moves as its step's outcome says: it awaits the
\* call it issued (at position next), or ends with a result or an exception.
Proceed(i, outcome, next) ==
    /\ UNCHANGED startup
    /\ CASE outcome.kind = "await" ->
             /\ pc' = [pc EXCEPT ![i] = next]
             /\ calls' = [calls EXCEPT ![i] = Append(@, outcome.call)]
             /\ keys' = [keys EXCEPT ![i] = Append(@, HeaderKey)]
             /\ UNCHANGED result
        [] outcome.kind = "return" ->
             /\ pc' = [pc EXCEPT ![i] = "done"]
             /\ result' = [result EXCEPT ![i] = outcome.result]
             /\ UNCHANGED <<calls, keys>>
        [] outcome.kind = "throw" ->
             /\ pc' = [pc EXCEPT ![i] = "done"]
             /\ result' = [result EXCEPT ![i] = Thrown(outcome.msg)]
             /\ UNCHANGED <<calls, keys>>

\* The server dispatches a call of a registered tool to invocation i.
Dispatch(i, name, a) ==
    /\ server = "ready"
    /\ name \in registered
    /\ pc[i] = "idle"
    /\ tool' = [tool EXCEPT ![i] = name]
    /\ arg' = [arg EXCEPT ![i] = a]
    /\ UNCHANGED <<resps, firstCoinId>>

\* The call invocation i awaits ends with outcome r.
Receive(i, name, at, r) ==
    /\ pc[i] = at
    /\ tool[i] = name
    /\ resps' = [resps EXCEPT ![i] = Append(@, r)]
    /\ UNCHANGED <<tool, arg>>

\* Mutant of CallGetCoinInfo: the record an earlier invocation found for the
\* same query is returned from a cache, without a remote call.
CallGetCoinInfoCached(i, query) ==
    /\ Dispatch(i, "get_coin_info", query)
    /\ IF \E j \in Invocations : pc[j] = "done" /\ arg[j] = query /\ ~result[j].isError
         THEN LET j == CHOOSE j \in Invocations :
                           pc[j] = "done" /\ arg[j] = query /\ ~result[j].isError
              IN Proceed(i, Return(result[j]), "step1")
         ELSE Proceed(i, CatchCoinInfo(query, Step1Call(query)), "step1")

CallGetCoinInfo(i, query) ==
    /\ Dispatch(i, "get_coin_info", query)
    /\ Proceed(i, CatchCoinInfo(query, Step1Call(query)), "step1")

DirectIdResponse(i, r) ==
    /\ Receive(i, "get_coin_info", "step1", r)
    /\ Proceed(i, CatchCoinInfo(arg[i], Step1Decide(arg[i], r)), "step2")
    /\ UNCHANGED firstCoinId

\* Mutant of SearchResponse: the identifier found is kept in one place for
\* all invocations, as a variable of the module would be.
SearchResponseShared(i, r) ==
    /\ Receive(i, "get_coin_info", "step2", r)
    /\ LET outcome == CatchCoinInfo(arg[i], Step2Decide(arg[i], r))
       IN /\ Proceed(i, outcome, "step3")
          /\ firstCoinId' = [j \in Invocations |->
                                IF outcome.kind = "await" THEN FirstCoinIdOf(r)
                                ELSE firstCoinId[j]]

SearchResponse(i, r) ==
    /\ Receive(i, "get_coin_info", "step2", r)
    /\ LET outcome == CatchCoinInfo(arg[i], Step2Decide(arg[i], r))
       IN /\ Proceed(i, outcome, "step3")
          /\ firstCoinId' = [firstCoinId EXCEPT ![i] =
                                IF outcome.kind = "await" THEN FirstCoinIdOf(r) ELSE @]

\* Mutant of IdFromSearchResponse: a 404 on the second fetch by id sends the
\* handler back to the search.
IdFromSearchResponseRetry(i, r) ==
    /\ Receive(i, "get_coin_info", "step3", r)
    /\ IF ~r.rejected /\ r.status = 404
         THEN Proceed(i, Await(SearchCall(encodeURIComponent(arg[i]))), "step2")
         ELSE Proceed(i, CatchCoinInfo(arg[i], Step3Decide(arg[i], firstCoinId[i], r)), "done")
    /\ UNCHANGED firstCoinId

IdFromSearchResponse(i, r) ==
    /\ Receive(i, "get_coin_info", "step3", r)
    /\ Proceed(i, CatchCoinInfo(arg[i], Step3Decide(arg[i], firstCoinId[i], r)), "done")
    /\ UNCHANGED firstCoinId

CallSearchCoingeckoId(i, query) ==
    /\ Dispatch(i, "search_coingecko_id", query)
    /\ Proceed(i, SearchIdCall(query), "await")

SearchCoingeckoIdResponse(i, r) ==
    /\ Receive(i, "search_coingecko_id", "await", r)
    /\ Proceed(i, SearchIdDecide(r), "done")
    /\ UNCHANGED firstCoinId

CallGetCoinDataById(i, id) ==
    /\ Dispatch(i, "get_coin_data_by_coingecko_id", id)
    /\ Proceed(i, CatchCoinData(CoinDataCall(id)), "await")

GetCoinDataByIdResponse(i, r) ==
    /\ Receive(i, "get_coin_data_by_coingecko_id", "await", r)
    /\ Proceed(i, CatchCoinData(CoinDataDecide(r)), "done")
    /\ UNCHANGED firstCoinId

\* The result has gone to the caller; nothing of the invocation is kept.
Discard(i) ==
    /\ pc[i] = "done"
    /\ pc' = [pc EXCEPT ![i] = "idle"]
    /\ tool' = [tool EXCEPT ![i] = "none"]
    /\ arg' = [arg EXCEPT ![i] = ""]
    /\ calls' = [calls EXCEPT ![i] = <<>>]
    /\ keys' = [keys EXCEPT ![i] = <<>>]
    /\ resps' = [resps EXCEPT ![i] = <<>>]
    /\ firstCoinId' = [firstCoinId EXCEPT ![i] = Undefined]
    /\ result' = [result EXCEPT ![i] = NoResult]
    /\ UNCHANGED startup

\* No other invocation is in progress.
Alone(i) == \A j \in Invocations \ {i} : pc[j] = "idle"

\* Tool calls served one at a time, the upstream answering as it pleases.
Next ==
    \/ StartServer
    \/ \E i \in Invocations :
        \/ \E q \in Queries : Alone(i) /\ CallGetCoinInfo(i, q)
        \/ \E r \in CoinOutcomes : DirectIdResponse(i, r)
        \/ \E r \in SearchOutcomes : SearchResponse(i, r)
        \/ \E r \in CoinOutcomes : IdFromSearchResponse(i, r)
        \/ \E q \in Queries : Alone(i) /\ CallSearchCoingeckoId(i, q)
        \/ \E r \in SearchOutcomes : SearchCoingeckoIdResponse(i, r)
        \/ \E q \in Queries : Alone(i) /\ CallGetCoinDataById(i, q)
        \/ \E r \in CoinOutcomes : GetCoinDataByIdResponse(i, r)
        \/ Discard(i)

Spec == Init /\ [][Next]_vars

\* An upstream that does not change: the outcome r of the call invocation i
\* awaits at position `at` is the one every earlier call to the same endpoint
\* with the same argument, by any invocation, ended with.
Unchanged(i, at, r) ==
    /\ pc[i] = at
    /\ \A j \in Invocations : \A k \in 1..Len(resps[j]) :
           calls[j][k] = calls[i][Len(calls[i])] => resps[j][k] = r

\* The query of the invocations made so far, if any.
SameQuery(q) == \A j \in Invocations : tool[j] # "none" => arg[j] = q

\* The invocation before i has ended, and what it did is kept for comparison.
InTurn(i) == \A j \in Invocations : j < i => pc[j] = "done"

\* get_coin_info invoked again and again with one query, one invocation after
\* the other, against an upstream that answers each call identically.
NextUnchanged ==
    \/ StartServer
    \/ \E i \in Invocations :
        \/ \E q \in Queries : InTurn(i) /\ SameQuery(q) /\ CallGetCoinInfo(i, q)
        \/ \E r \in CoinOutcomes : Unchanged(i, "step1", r) /\ DirectIdResponse(i, r)
        \/ \E r \in SearchOutcomes : Unchanged(i, "step2", r) /\ SearchResponse(i, r)
        \/ \E r \in CoinOutcomes : Unchanged(i, "step3", r) /\ IdFromSearchResponse(i, r)

SpecUnchanged == Init /\ [][NextUnchanged]_vars

\* A few outcomes of each endpoint, for the specifications that follow the
\* environment or several invocations at once.
FewCoinOutcomes ==
    { Response(200, Body("full", FullCoin)),
      Response(200, Body("bare", Obj([id |-> Str("bitcoin")]))),
      Response(404, Body("notfound", Obj([error |-> Str("coin not found")]))),
      NetworkFailure }
FewSearchOutcomes ==
    { Response(200, Body("hits", Obj([coins |-> Arr(<<Hit("usd-coin"), Hit("bitcoin")>>),
                                      exchanges |-> Arr(<<>>)]))),
      Response(200, Body("hits", Obj([coins |-> Arr(<<Hit("bitcoin")>>),
                                      exchanges |-> Arr(<<>>)]))),
      Response(200, Body("hits", Obj([coins |-> Arr(<<>>), exchanges |-> Arr(<<>>)]))),
      Response(500, BadBody) }

\* The server from its start on, the environment changing at any moment, tool
\* calls served one at a time.
NextStartup ==
    \/ StartServer
    \/ \E v \in EnvValues : SetEnv(v)
    \/ \E i \in Invocations :
        \/ \E q \in Queries : Alone(i) /\ CallGetCoinInfo(i, q)
        \/ \E r \in FewCoinOutcomes : DirectIdResponse(i, r)
        \/ \E r \in FewSearchOutcomes : SearchResponse(i, r)
        \/ \E r \in FewCoinOutcomes : IdFromSearchResponse(i, r)
        \/ \E q \in Queries : Alone(i) /\ CallSearchCoingeckoId(i, q)
        \/ \E r \in FewSearchOutcomes : SearchCoingeckoIdResponse(i, r)
        \/ \E q \in Queries : Alone(i) /\ CallGetCoinDataById(i, q)
        \/ \E r \in FewCoinOutcomes : GetCoinDataByIdResponse(i, r)
        \/ Discard(i)

SpecStartup == Init /\ [][NextStartup]_vars

\* The outcome of the call get_coin_info invocation i awaits arrives.
Respond(i) ==
    \/ \E r \in FewCoinOutcomes : DirectIdResponse(i, r)
    \/ \E r \in FewSearchOutcomes : SearchResponse(i, r)
    \/ \E r \in FewCoinOutcomes : IdFromSearchResponse(i, r)

\* get_coin_info invocations in flight together, their calls and the outcomes
\* of their calls interleaved in any order.
NextConcurrent ==
    \/ StartServer
    \/ \E i \in Invocations :
        \/ \E q \in Queries : CallGetCoinInfo(i, q)
        \/ Respond(i)

\* Every call that was issued ends, with a response or a network failure.
SpecConcurrent ==
    Init /\ [][NextConcurrent]_vars /\ \A i \in Invocations : WF_vars(Respond(i))

----------------------------------------------------------------------------
(* Vocabulary of the properties                                            *)

CoinInfo(i) == tool[i] = "get_coin_info"
Ended(i) == pc[i] = "done"
\* Invocation i has received the outcome of its k-th call.
Got(i, k) == Len(resps[i]) >= k
Is2xx(r) == ~r.rejected /\ r.status \in 200..299
IsObject(body) == body.parses /\ body.val.t = "object"
HasField(body, k) == IsObject(body) /\ k \in DOMAIN body.val.f
\* A valid CoinRecord: a non-empty string id and no error field.
ValidCoinRecord(body) ==
    /\ HasField(body, "id")
    /\ body.val.f.id.t = "string"
    /\ body.val.f.id.v # ""
    /\ ~HasField(body, "error")
\* The text of a JSON document.
JsonText(doc) == [t |-> "json", v |-> "", of |-> doc]
\* The projection of a record: id, symbol, name and web_slug where the record
\* has them, and platforms, empty unless the record's is a truthy value.
Projected(rec) ==
    Obj([k \in (DOMAIN rec.f \cap {"id", "symbol", "name", "web_slug"}) \cup {"platforms"} |->
           IF k # "platforms" THEN rec.f[k]
           ELSE IF "platforms" \in DOMAIN rec.f /\ Truthy(rec.f.platforms)
                  THEN rec.f.platforms ELSE EmptyObj])
FetchById(s) == [endpoint |-> "/coins/", arg |-> encodeURIComponent(s)]
SearchFor(s) == [endpoint |-> "/search?query=", arg |-> encodeURIComponent(s)]
\* The text of a result names the string s.
Names(res, s) == \E k \in 1..Len(res.text) : res.text[k] = Str(s)
\* A failure result: the error flag set, a text, nothing thrown.
IsFailure(res) == res.isError /\ ~res.threw /\ Len(res.text) > 0

----------------------------------------------------------------------------
(* Properties                                                              *)

\* C1: when the first fetch by id answers 2xx with a valid CoinRecord (a
\* non-empty string id, no error field), get_coin_info ends with the
\* projection of that body as a success and has issued that one call only:
\* no search, no second fetch by id.
C1_Stage1Success ==
    \A i \in Invocations :
        (CoinInfo(i) /\ Got(i, 1) /\ Is2xx(resps[i][1]) /\ ValidCoinRecord(resps[i][1].body))
        => /\ Ended(i)
           /\ result[i] = Success(<<JsonText(Projected(resps[i][1].body.val))>>)
           /\ calls[i] = <<FetchById(arg[i])>>

C1_Witness ==
    \E i \in Invocations :
        /\ CoinInfo(i) /\ Got(i, 1) /\ Is2xx(resps[i][1])
        /\ ValidCoinRecord(resps[i][1].body)
        /\ Ended(i) /\ ~result[i].isError

\* The first hit of a search response: a list of at least one candidate whose
\* first element carries a non-empty string id.
HasFirstHit(body) ==
    /\ HasField(body, "coins")
    /\ body.val.f.coins.t = "array"
    /\ Len(body.val.f.coins.items) >= 1
    /\ body.val.f.coins.items[1].t = "object"
    /\ "id" \in DOMAIN body.val.f.coins.items[1].f
    /\ body.val.f.coins.items[1].f.id.t = "string"
    /\ body.val.f.coins.items[1].f.id.v # ""
FirstHitId(body) == body.val.f.coins.items[1].f.id.v

\* Stage 1 answered 404, or 2xx with a body whose error is "coin not found".
NotFoundAtStage1(r) ==
    /\ ~r.rejected
    /\ \/ r.status = 404
       \/ /\ Is2xx(r) /\ HasField(r.body, "error")
          /\ r.body.val.f.error = Str("coin not found")

\* C2: when stage 1 answers 404 or a 2xx "coin not found" body and the search
\* answers 2xx with N >= 1 candidates, the third call fetches the first
\* candidate's id, whatever N and the other candidates are; and when that
\* fetch answers 2xx with a valid CoinRecord the call ends with the
\* projection of that record as a success.
C2_FallbackSuccess ==
    \A i \in Invocations :
        (/\ CoinInfo(i) /\ Got(i, 2)
         /\ NotFoundAtStage1(resps[i][1])
         /\ Is2xx(resps[i][2]) /\ HasFirstHit(resps[i][2].body))
        => /\ Len(calls[i]) = 3
           /\ calls[i][3] = FetchById(FirstHitId(resps[i][2].body))
           /\ (Got(i, 3) /\ Is2xx(resps[i][3]) /\ ValidCoinRecord(resps[i][3].body))
              => /\ Ended(i)
                 /\ result[i] = Success(<<JsonText(Projected(resps[i][3].body.val))>>)

\* A fallback through a list of two candidates ending in a success.
C2_Witness ==
    \E i \in Invocations :
        /\ CoinInfo(i) /\ Got(i, 3)
        /\ NotFoundAtStage1(resps[i][1])
        /\ Is2xx(resps[i][2]) /\ HasFirstHit(resps[i][2].body)
        /\ Len(resps[i][2].body.val.f.coins.items) = 2
        /\ resps[i][2].body.val.f.coins.items[2] # resps[i][2].body.val.f.coins.items[1]
        /\ Is2xx(resps[i][3]) /\ ValidCoinRecord(resps[i][3].body)
        /\ Ended(i) /\ ~result[i].isError

\* C3: when the first fetch by id answers a failure status other than 404,
\* whatever its body, get_coin_info ends with a failure result and has issued
\* neither the search nor a second fetch by id.
C3_Stage1HardFailure ==
    \A i \in Invocations :
        (/\ CoinInfo(i) /\ Got(i, 1)
         /\ ~resps[i][1].rejected /\ ~Is2xx(resps[i][1]) /\ resps[i][1].status # 404)
        => /\ Ended(i)
           /\ IsFailure(result[i])
           /\ calls[i] = <<FetchById(arg[i])>>

\* A 500 whose body is not JSON.
C3_Witness ==
    \E i \in Invocations :
        /\ CoinInfo(i) /\ Got(i, 1)
        /\ ~resps[i][1].rejected /\ resps[i][1].status = 500
        /\ ~resps[i][1].body.parses
        /\ Ended(i) /\ result[i].isError

\* A search body without candidates: an object whose coins is absent, null or
\* an empty list.
NoCandidates(body) ==
    /\ IsObject(body)
    /\ \/ "coins" \notin DOMAIN body.val.f
       \/ body.val.f.coins = Null
       \/ body.val.f.coins.t = "array" /\ Len(body.val.f.coins.items) = 0

\* C4: when the search answers 2xx with an empty or absent candidate list,
\* get_coin_info ends with the not-found failure, whose text holds the query
\* verbatim, and issues no third call.
C4_NothingMatched ==
    \A i \in Invocations :
        (CoinInfo(i) /\ Got(i, 2) /\ Is2xx(resps[i][2]) /\ NoCandidates(resps[i][2].body))
        => /\ Ended(i)
           /\ IsFailure(result[i])
           /\ result[i].text[1] = Str("Coin not found for query: '")
           /\ Names(result[i], arg[i])
           /\ Len(calls[i]) = 2

\* A search that answers an empty list.
C4_Witness ==
    \E i \in Invocations :
        /\ CoinInfo(i) /\ Got(i, 2) /\ Is2xx(resps[i][2])
        /\ HasField(resps[i][2].body, "coins")
        /\ resps[i][2].body.val.f.coins = Arr(<<>>)
        /\ Ended(i) /\ result[i].isError

\* The last outcome invocation i received.
LastOutcome(i) == resps[i][Len(resps[i])]
\* The text of a success: one JSON document.
IsSuccess(res) ==
    ~res.isError /\ ~res.threw /\ Len(res.text) = 1 /\ res.text[1].t = "json"

\* C5: no exception leaves the get_coin_info handler; an invocation that has
\* ended has either a success or a failure result with the error flag set and
\* a text that holds the query, and it has the latter whenever the last
\* outcome it received was a network failure or a non-2xx status.
C5_UniformFailure ==
    \A i \in Invocations :
        CoinInfo(i)
        => /\ ~result[i].threw
           /\ Ended(i)
              => /\ IsSuccess(result[i]) \/ IsFailure(result[i])
                 /\ result[i].isError => Names(result[i], arg[i])
                 /\ (Got(i, 1) /\ ~Is2xx(LastOutcome(i))) => result[i].isError

\* A network failure of the third call.
C5_Witness ==
    \E i \in Invocations :
        /\ CoinInfo(i) /\ Ended(i) /\ Got(i, 3) /\ resps[i][3].rejected
        /\ IsFailure(result[i]) /\ Names(result[i], arg[i])

FiveFields == {"id", "symbol", "name", "web_slug", "platforms"}
\* The object get_coin_info returned, and the record it was made from.
Output(i) == result[i].text[1].of.f
Source(i) == LastOutcome(i).body.val.f
Succeeded(i) == CoinInfo(i) /\ Ended(i) /\ IsSuccess(result[i])

\* C6 as stated: the output of every successful get_coin_info has exactly the
\* five fields id, symbol, name, web_slug and platforms, each equal to the
\* source record's, platforms being empty when the source's is null or absent.
C6_ExactlyFiveFields ==
    \A i \in Invocations :
        Succeeded(i)
        => /\ DOMAIN Output(i) = FiveFields
           /\ \A k \in FiveFields \ {"platforms"} :
                  k \in DOMAIN Source(i) /\ Output(i)[k] = Source(i)[k]
           /\ Output(i).platforms =
                  IF "platforms" \in DOMAIN Source(i) /\ Source(i).platforms # Null
                    THEN Source(i).platforms ELSE EmptyObj

\* C6, amended: the output of every successful get_coin_info has the fields
\* id and platforms, and symbol, name and web_slug exactly when the source
\* record has them, and no other field; each equals the source record's,
\* except that platforms is the empty mapping when the source's is absent,
\* null or another falsy value.
C6_Projection ==
    \A i \in Invocations :
        Succeeded(i)
        => /\ DOMAIN Output(i) =
                  (DOMAIN Source(i) \cap {"id", "symbol", "name", "web_slug"}) \cup {"platforms"}
           /\ "id" \in DOMAIN Output(i)
           /\ \A k \in DOMAIN Output(i) \ {"platforms"} : Output(i)[k] = Source(i)[k]
           /\ Output(i).platforms =
                  IF "platforms" \in DOMAIN Source(i) /\ Truthy(Source(i).platforms)
                    THEN Source(i).platforms ELSE EmptyObj

\* A success of stage 3 from a record that has an id and nothing else.
C6_Witness ==
    \E i \in Invocations :
        /\ Succeeded(i) /\ Got(i, 3)
        /\ DOMAIN Source(i) = {"id"}
        /\ DOMAIN Output(i) = {"id", "platforms"}

\* A search body whose candidate list has a first element.
HasCandidates(body) ==
    /\ HasField(body, "coins")
    /\ body.val.f.coins.t = "array"
    /\ Len(body.val.f.coins.items) >= 1

\* C7: the calls of a get_coin_info invocation are a prefix of fetch by id of
\* the query, search of the query, fetch by id of the first candidate's id; a
\* call is issued only when every earlier one has been answered; the search
\* only after stage 1 answered 404 or 2xx without a valid record; the second
\* fetch only after the search answered 2xx with a first candidate that has a
\* non-empty id; and a first candidate without one ends the call with a
\* failure after two calls.
C7_StrictSequencing ==
    \A i \in Invocations :
        CoinInfo(i)
        => /\ Len(calls[i]) <= 3
           /\ Len(resps[i]) <= Len(calls[i])
           /\ Len(calls[i]) <= Len(resps[i]) + 1
           /\ (Len(calls[i]) = Len(resps[i]) + 1) <=> (pc[i] \in {"step1", "step2", "step3"})
           /\ Len(calls[i]) >= 1 => calls[i][1] = FetchById(arg[i])
           /\ Len(calls[i]) >= 2
              => /\ calls[i][2] = SearchFor(arg[i])
                 /\ ~resps[i][1].rejected
                 /\ resps[i][1].status = 404 \/ Is2xx(resps[i][1])
                 /\ ~(Is2xx(resps[i][1]) /\ ValidCoinRecord(resps[i][1].body))
           /\ Len(calls[i]) >= 3
              => /\ Is2xx(resps[i][2])
                 /\ HasFirstHit(resps[i][2].body)
                 /\ calls[i][3] = FetchById(FirstHitId(resps[i][2].body))
           /\ (Got(i, 2) /\ Is2xx(resps[i][2]) /\ HasCandidates(resps[i][2].body)
                 /\ ~HasFirstHit(resps[i][2].body))
              => Ended(i) /\ IsFailure(result[i]) /\ Len(calls[i]) = 2

\* The third call in flight after a search through two candidates, the first
\* with an id and the second without.
C7_Witness ==
    \E i \in Invocations :
        /\ CoinInfo(i) /\ pc[i] = "step3"
        /\ Len(calls[i]) = 3 /\ Len(resps[i]) = 2
        /\ Len(resps[i][2].body.val.f.coins.items) = 2
        /\ resps[i][2].body.val.f.coins.items[2] = NoIdHit

\* A transport error: a network failure or a non-2xx status.
TransportError(r) == r.rejected \/ ~Is2xx(r)

\* C8 as stated: a transport error at any of the three stages is terminal:
\* the call it answered is the last one and the invocation ends in failure.
C8_AnyTransportErrorTerminal ==
    \A i \in Invocations : \A k \in 1..Len(resps[i]) :
        (CoinInfo(i) /\ TransportError(resps[i][k]))
        => Len(calls[i]) = k /\ Ended(i) /\ IsFailure(result[i])

\* C8, amended: a transport error other than a 404 at stage 1 is terminal:
\* the call it answered is the last one, so no call is repeated, and the
\* invocation ends in failure.
C8_NoRetry ==
    \A i \in Invocations : \A k \in 1..Len(resps[i]) :
        (/\ CoinInfo(i) /\ TransportError(resps[i][k])
         /\ ~(k = 1 /\ ~resps[i][k].rejected /\ resps[i][k].status = 404))
        => Len(calls[i]) = k /\ Ended(i) /\ IsFailure(result[i])

\* A 404 of the third call, which fetched the id the first call had fetched.
C8_Witness ==
    \E i \in Invocations :
        /\ CoinInfo(i) /\ Got(i, 3)
        /\ ~resps[i][3].rejected /\ resps[i][3].status = 404
        /\ calls[i][3] = calls[i][1]
        /\ Ended(i) /\ result[i].isError

\* C9: search_coingecko_id and get_coin_data_by_coingecko_id return a failure
\* result, and do not throw, when their one call ends with a network failure
\* or a non-2xx status.
C9_SingleCallToolsFlagFailure ==
    \A i \in Invocations :
        (/\ tool[i] \in {"search_coingecko_id", "get_coin_data_by_coingecko_id"}
         /\ Ended(i) /\ Got(i, 1) /\ TransportError(resps[i][1]))
        => IsFailure(result[i])

\* C10: two get_coin_info invocations with the same query, against an upstream
\* that answers each call identically, issue the same calls and end with the
\* same result.
C10_Determinism ==
    \A i, j \in Invocations :
        (CoinInfo(i) /\ CoinInfo(j) /\ arg[i] = arg[j])
        => /\ \A k \in 1..Len(calls[i]) : k <= Len(calls[j]) => calls[i][k] = calls[j][k]
           /\ (Ended(i) /\ Ended(j)) => (calls[i] = calls[j] /\ result[i] = result[j])

\* Two invocations that both went through the three stages to a success.
C10_Witness ==
    \E i, j \in Invocations :
        /\ i # j /\ CoinInfo(i) /\ CoinInfo(j) /\ arg[i] = arg[j]
        /\ Ended(i) /\ Ended(j)
        /\ Len(calls[i]) = 3 /\ Len(calls[j]) = 3
        /\ ~result[i].isError /\ ~result[j].isError

\* C11: the credential is checked once, at start-up. When it is absent (not
\* set, or empty) as registerTools runs, no tool is registered, the process
\* exits with code 1 and no tool is ever invoked; when it is present every tool
\* is registered, no invocation ends with the missing-credential error, and
\* every call carries the key read at registration, whatever the environment
\* holds by then.
C11_CredentialAtStartup ==
    /\ server = "starting" => registered = {}
    /\ server = "exited"
       => /\ ~Truthy(apiKey)
          /\ registered = {}
          /\ exitCode = Num("1")
    /\ server = "ready"
       => /\ Truthy(apiKey)
          /\ registered = ToolNames
          /\ exitCode = Undefined
    /\ \A i \in Invocations :
          /\ tool[i] # "none" => server = "ready"
          /\ Len(keys[i]) = Len(calls[i])
          /\ \A k \in 1..Len(keys[i]) : keys[i][k] = apiKey
          /\ \A k \in 1..Len(result[i].text) : result[i].text[k] # MissingKey[1]

\* A get_coin_info that made its three calls after the key had been removed
\* from the environment.
C11_Witness ==
    \E i \in Invocations :
        /\ server = "ready" /\ env = Undefined
        /\ CoinInfo(i) /\ Ended(i) /\ Len(calls[i]) = 3
        /\ \A k \in 1..3 : keys[i][k] = Str("key-1")

\* Stage 1 answered 2xx with a body carrying the error "coin not found".
CoinNotFoundBody(body) ==
    HasField(body, "error") /\ body.val.f.error = Str("coin not found")

\* C14: whenever the first fetch by id answers 2xx with a body that is neither
\* a valid CoinRecord nor the "coin not found" error, get_coin_info goes on
\* to issue search(query) as its second call.
C14_SoftFallback ==
    \A i \in Invocations :
        (/\ CoinInfo(i) /\ Got(i, 1) /\ Is2xx(resps[i][1])
         /\ ~ValidCoinRecord(resps[i][1].body)
         /\ ~CoinNotFoundBody(resps[i][1].body))
        => /\ Len(calls[i]) >= 2
           /\ calls[i][2] = SearchFor(arg[i])

\* The soft error that replaces an unparseable body of the first fetch by id.
ParseFailureAtStage1(status) ==
    Obj([error |-> StrNum("Failed to parse JSON response from ID endpoint. Status: ", status)])
\* The text of a result holds the value v.
Holds(res, v) == \E k \in 1..Len(res.text) : res.text[k] = v

\* C15: when the body of the first fetch by id cannot be parsed as JSON the
\* parse exception is not propagated, and the decision is taken from the
\* status alone: on 2xx or 404 the second call is search(query); on any other
\* status the invocation ends after that one call with a failure whose text
\* carries the status and the synthesized soft error with that status.
C15_ParseFailureAbsorbed ==
    \A i \in Invocations :
        (CoinInfo(i) /\ Got(i, 1) /\ ~resps[i][1].rejected /\ ~resps[i][1].body.parses)
        => LET status == resps[i][1].status
           IN /\ Len(resps[i]) = 1 => ~Holds(result[i], JsonSyntaxError[1])
              /\ (Is2xx(resps[i][1]) \/ status = 404)
                 => /\ Len(calls[i]) >= 2
                    /\ calls[i][2] = SearchFor(arg[i])
              /\ ~(Is2xx(resps[i][1]) \/ status = 404)
                 => /\ Ended(i)
                    /\ IsFailure(result[i])
                    /\ calls[i] = <<FetchById(arg[i])>>
                    /\ Holds(result[i], Num(ToString(status)))
                    /\ Holds(result[i], JsonText(ParseFailureAtStage1(status)))

\* An unparseable 404 at stage 1 followed by the search and a success.
C15_Witness ==
    \E i \in Invocations :
        /\ CoinInfo(i) /\ Got(i, 3) /\ ~resps[i][1].rejected
        /\ ~resps[i][1].body.parses /\ resps[i][1].status = 404
        /\ calls[i][2] = SearchFor(arg[i])
        /\ Ended(i) /\ ~result[i].isError

\* A response with a failure status (404 included).
FailureStatus(r) == ~r.rejected /\ ~Is2xx(r)

\* C16: in get_coin_info a non-2xx status on the search or on the second
\* fetch by id is terminal, 404 included: the invocation ends at once with a
\* failure and issues no further call. The failure of the search carries the
\* status and the raw body text; the failure of the second fetch by id
\* carries the status and names the identifier found and the original query.
C16_NoFallbackAfterStage1 ==
    \A i \in Invocations :
        /\ (CoinInfo(i) /\ Got(i, 2) /\ FailureStatus(resps[i][2]))
           => /\ Ended(i)
              /\ IsFailure(result[i])
              /\ Len(calls[i]) = 2
              /\ Len(resps[i]) = 2
              /\ Holds(result[i], Num(ToString(resps[i][2].status)))
              /\ Holds(result[i], [t |-> "text", v |-> resps[i][2].body.raw])
        /\ (CoinInfo(i) /\ Got(i, 3) /\ FailureStatus(resps[i][3]))
           => /\ Ended(i)
              /\ IsFailure(result[i])
              /\ Len(calls[i]) = 3
              /\ calls[i][3].endpoint = "/coins/"
              /\ Holds(result[i], Num(ToString(resps[i][3].status)))
              /\ Names(result[i], FirstHitId(resps[i][2].body))
              /\ Names(result[i], arg[i])

\* A 404 at the second fetch by id, for an identifier that differs from the
\* query.
C16_Witness ==
    \E i \in Invocations :
        /\ CoinInfo(i) /\ Got(i, 3) /\ FailureStatus(resps[i][3])
        /\ resps[i][3].status = 404
        /\ FirstHitId(resps[i][2].body) # arg[i]
        /\ Ended(i)

\* A 404 at the search with a body text that is not empty.
C16_WitnessSearch ==
    \E i \in Invocations :
        /\ CoinInfo(i) /\ Got(i, 2) /\ FailureStatus(resps[i][2])
        /\ resps[i][2].status = 404
        /\ resps[i][2].body.raw # ""
        /\ Ended(i)

\* The value of field k of a body, undefined when the body has none.
FieldOf(body, k) == IF HasField(body, k) THEN body.val.f[k] ELSE Undefined
\* The second fetch by id answered 2xx.
Stage3Answered2xx(i) == CoinInfo(i) /\ Got(i, 3) /\ Is2xx(resps[i][3])
GenericInvalid == Str("Invalid data structure after search")
ParseFailureAtStage3(status) ==
    StrNum("Failed to parse JSON response from coin details endpoint (after search). Status: ", status)

\* C17, as claimed: when the second fetch by id answers 2xx with a body that
\* is not a valid CoinRecord (id missing, an error field present, or an
\* unparseable body) the invocation ends with a failure, never a success,
\* and the failure includes the error of the provider when there is one.
C17_InvalidBodyFails ==
    \A i \in Invocations :
        (Stage3Answered2xx(i) /\ ~ValidCoinRecord(resps[i][3].body))
        => /\ Ended(i)
           /\ IsFailure(result[i])
           /\ (HasField(resps[i][3].body, "error")
               /\ resps[i][3].body.val.f.error.t = "string"
               /\ resps[i][3].body.val.f.error.v # "")
              => Holds(result[i], resps[i][3].body.val.f.error)

\* C17, amended: the test is on the truthiness of id and error. The
\* invocation fails, with no call after the third, when the body is
\* unparseable (the failure carries the synthesized parse message), when its
\* error is truthy (the failure carries that error), when its id is falsy
\* (the failure carries the generic message), when it is null, or when its id
\* is truthy but not a string. A body with a non-empty string id and a falsy
\* error field, an empty error included, is returned as a success.
C17_InvalidBodyByTruthiness ==
    \A i \in Invocations :
        Stage3Answered2xx(i)
        => LET body == resps[i][3].body
               id == FieldOf(body, "id")
               error == FieldOf(body, "error")
           IN /\ Ended(i)
              /\ Len(calls[i]) = 3
              /\ ~body.parses
                 => /\ IsFailure(result[i])
                    /\ Holds(result[i], ParseFailureAtStage3(resps[i][3].status))
              /\ (body.parses /\ ~IsObject(body)) => IsFailure(result[i])
              /\ (IsObject(body) /\ Truthy(error))
                 => IsFailure(result[i]) /\ Holds(result[i], error)
              /\ (IsObject(body) /\ ~Truthy(error) /\ ~Truthy(id))
                 => IsFailure(result[i]) /\ Holds(result[i], GenericInvalid)
              /\ (IsObject(body) /\ ~Truthy(error) /\ Truthy(id) /\ id.t # "string")
                 => IsFailure(result[i])
              /\ (IsObject(body) /\ ~Truthy(error) /\ Truthy(id) /\ id.t = "string")
                 => result[i] = Success(<<JsonText(Projected(body.val))>>)

\* A provider error reported at the second fetch by id.
C17_Witness ==
    \E i \in Invocations :
        /\ Stage3Answered2xx(i)
        /\ HasField(resps[i][3].body, "error")
        /\ Truthy(resps[i][3].body.val.f.error)
        /\ ~HasField(resps[i][3].body, "id")
        /\ Ended(i) /\ result[i].isError

\* A body with an id and an empty error returned as a success.
C17_WitnessEmptyError ==
    \E i \in Invocations :
        /\ Stage3Answered2xx(i)
        /\ HasField(resps[i][3].body, "error")
        /\ ~ValidCoinRecord(resps[i][3].body)
        /\ Ended(i) /\ ~result[i].isError

\* The last fetch by id answered so far: the third call's once it has been
\* answered, the first call's before that.
LastFetchById(i) == IF Len(resps[i]) >= 3 THEN resps[i][3] ELSE resps[i][1]
\* A body with a non-empty string id.
HasStringId(body) ==
    /\ HasField(body, "id")
    /\ body.val.f.id.t = "string"
    /\ body.val.f.id.v # ""

\* C18, as claimed: an ended get_coin_info has no error flag if and only if
\* the last fetch by id it had answered was 2xx with a body holding a
\* non-empty string id and no error field.
C18_SuccessIffNoErrorField ==
    \A i \in Invocations :
        (CoinInfo(i) /\ Ended(i))
        => (~result[i].isError
            <=> /\ Got(i, 1)
                /\ Is2xx(LastFetchById(i))
                /\ HasStringId(LastFetchById(i).body)
                /\ ~HasField(LastFetchById(i).body, "error"))

\* C18, amended: an ended get_coin_info has no error flag if and only if the
\* last fetch by id it had answered was 2xx with a body holding a non-empty
\* string id and no truthy error (the field absent, null or empty). Then the
\* result is the projection of that body and its id is the body's id. In
\* every other outcome the error flag is set and the result is a message
\* that names the query, not a record.
C18_SuccessIffValidRecord ==
    \A i \in Invocations :
        (CoinInfo(i) /\ Ended(i))
        => LET accepted ==
                   /\ Got(i, 1)
                   /\ Is2xx(LastFetchById(i))
                   /\ HasStringId(LastFetchById(i).body)
                   /\ ~Truthy(FieldOf(LastFetchById(i).body, "error"))
           IN /\ ~result[i].isError <=> accepted
              /\ accepted
                 => /\ Len(resps[i]) \in {1, 3}
                    /\ result[i] = Success(<<JsonText(Projected(LastFetchById(i).body.val))>>)
                    /\ Output(i).id = LastFetchById(i).body.val.f.id
              /\ ~accepted
                 => /\ IsFailure(result[i])
                    /\ result[i].text[1].t = "string"
                    /\ Names(result[i], arg[i])
                    /\ \A k \in 1..Len(result[i].text) :
                          result[i].text[k].t = "json"
                          => /\ k > 3
                             /\ ~Is2xx(LastOutcome(i)) \/ ~HasStringId(LastOutcome(i).body)

\* A success after the fallback whose id is not the query.
C18_Witness ==
    \E i \in Invocations :
        /\ CoinInfo(i) /\ Ended(i) /\ Got(i, 3)
        /\ ~result[i].isError
        /\ Output(i).id = LastFetchById(i).body.val.f.id
        /\ Output(i).id # Str(arg[i])

\* A failure on a 2xx body that holds an id and a provider error.
C18_WitnessRejected ==
    \E i \in Invocations :
        /\ CoinInfo(i) /\ Ended(i) /\ Got(i, 3)
        /\ Is2xx(LastFetchById(i))
        /\ HasStringId(LastFetchById(i).body)
        /\ Truthy(FieldOf(LastFetchById(i).body, "error"))
        /\ result[i].isError

SearchId(i) == tool[i] = "search_coingecko_id"

C19_WitnessTopLevel ==
    \E i \in Invocations :
        /\ SearchId(i) /\ Got(i, 1) /\ Is2xx(resps[i][1])
        /\ Ended(i) /\ IsSuccess(result[i])
        /\ DOMAIN Output(i) = {"id", "name", "platforms"}
        /\ Output(i).platforms = Null

\* Where a handler stands after a step with the given outcome: awaiting the
\* call it issued, or ended.
Settle(cs, outcome, next) ==
    IF outcome.kind = "await"
      THEN [calls |-> Append(cs, outcome.call), pc |-> next, result |-> NoResult]
      ELSE [calls |-> cs, pc |-> "done",
            result |-> IF outcome.kind = "return" THEN outcome.result
                       ELSE Thrown(outcome.msg)]
\* get_coin_info run alone on a query, given the outcomes rs of its calls.
RunAlone(query, rs) ==
    LET s0 == Settle(<<>>, CatchCoinInfo(query, Step1Call(query)), "step1")
        s1 == Settle(s0.calls, CatchCoinInfo(query, Step1Decide(query, rs[1])), "step2")
        s2 == Settle(s1.calls, CatchCoinInfo(query, Step2Decide(query, rs[2])), "step3")
        s3 == Settle(s2.calls,
                     CatchCoinInfo(query, Step3Decide(query, FirstCoinIdOf(rs[2]), rs[3])),
                     "done")
    IN CASE Len(rs) = 0 -> s0
         [] Len(rs) = 1 -> s1
         [] Len(rs) = 2 -> s2
         [] OTHER -> s3
\* All that belongs to invocation i.
Own(i) == <<pc[i], tool[i], arg[i], calls[i], keys[i], resps[i], firstCoinId[i], result[i]>>
AsIfAlone ==
    \A i \in Invocations :
        CoinInfo(i)
        => /\ Len(resps[i]) <= 3
           /\ calls[i] = RunAlone(arg[i], resps[i]).calls
           /\ pc[i] = RunAlone(arg[i], resps[i]).pc
           /\ result[i] = RunAlone(arg[i], resps[i]).result
OneAtATime ==
    \A i, j \in Invocations : (i # j /\ Own(i)' # Own(i)) => Own(j)' = Own(j)

\* C12: with get_coin_info invocations in flight together and their calls and
\* responses interleaved in any order, the calls an invocation has issued and
\* its result are at every moment those the handler gives when run alone on
\* the same query with the same outcomes, and a step of one invocation
\* leaves everything that belongs to the others as it was.
C12_Independence == []AsIfAlone /\ [][OneAtATime]_vars

\* Two invocations of the same query past their searches at once, with
\* different identifiers found, one of them ended.
C12_Witness ==
    \E i, j \in Invocations :
        /\ i # j /\ CoinInfo(i) /\ CoinInfo(j) /\ arg[i] = arg[j]
        /\ Got(i, 3) /\ Ended(i)
        /\ pc[j] = "step3"
        /\ firstCoinId[i] # firstCoinId[j]

Stage(p) ==
    CASE p = "idle" -> 0 [] p = "step1" -> 1 [] p = "step2" -> 2
      [] p = "step3" -> 3 [] OTHER -> 4
InFlight(i) == CoinInfo(i) /\ pc[i] \in {"step1", "step2", "step3"}
OneResult ==
    \A i \in Invocations :
        CoinInfo(i)
        => /\ Len(calls[i]) <= 3
           /\ Ended(i) => (IsSuccess(result[i]) # IsFailure(result[i]))
           /\ ~Ended(i) => result[i] = NoResult
Forward ==
    \A i \in Invocations :
        /\ Stage(pc'[i]) >= Stage(pc[i])
        /\ Stage(pc'[i]) = Stage(pc[i]) => Own(i)' = Own(i)
        /\ Ended(i) => Own(i)' = Own(i)

\* C13: provided every call that was issued ends, every get_coin_info
\* invocation ends, with one result that is either a success or a failure
\* and does not change afterwards, after three calls at most; each step takes
\* the handler to a later stage, none back from the second fetch by id.
C13_Termination ==
    /\ \A i \in Invocations : InFlight(i) ~> Ended(i)
    /\ []OneResult
    /\ [][Forward]_vars

\* An invocation that ended after its third call while another is in flight.
C13_Witness ==
    \E i, j \in Invocations :
        /\ CoinInfo(i) /\ Ended(i) /\ Len(calls[i]) = 3 /\ Got(i, 3)
        /\ IsFailure(result[i])
        /\ InFlight(j)

====
